---- MODULE Spec2Model ----
(***************************************************************************)
(* TubeBenderReviews: the total-cost-of-ownership calculator of            *)
(* server/routes.ts (POST /api/cost-calculator) and the score shown by     *)
(* client/src/components/scoring-breakdown.tsx.                            *)
(*                                                                         *)
(* Texts (priceRange, rating) are sequences of one-character strings.      *)
(* Money is kept exactly, in fortieths of a currency unit: the code's      *)
(* factors 0.05 and 0.15 are 1/20 and 3/20, its usage multipliers 0.5, 1   *)
(* and 1.5 are 1/2, 2/2 and 3/2, so every amount the handler computes is a *)
(* whole number of fortieths.  (The code computes in IEEE doubles; the     *)
(* model computes the same expressions in exact arithmetic.)               *)
(***************************************************************************)
EXTENDS Integers, Sequences, FiniteSets, TLC

VARIABLES
    catalog,        \* the tube_benders table as storage.getTubeBenders() returns it
    request,        \* req.body of the last POST /api/cost-calculator
    response,       \* the response sent to that request
    fetched,        \* whether that request reached storage.getTubeBenders()
    product,        \* the product prop of a mounted ScoringBreakdown
    scoredProduct,  \* the scoredProduct of its last render
    storeRequest,   \* route and credential of the last PATCH /api/tube-benders/...
    storeResponse,  \* its status, and whether it stored a changed record
    flights,        \* the cost-calculator requests in flight, one per client
    now,            \* the server's clock, in milliseconds
    admins,         \* the admin_users table
    loginLimiter,   \* loginLimiter's window of each IP
    logins,         \* the login requests awaiting verifyPassword
    loginResponse,  \* the last response of POST /api/auth/login
    failed,         \* failed password verifications since the last success
                    \* (counted up to the lockout threshold)
    reached,        \* requests of each IP that entered the login handler
                    \* in the IP's current window
    setups,         \* the requests to POST /api/auth/setup, one per caller
    rateLimiter,    \* global.rateLimiter: the contact history of each IP
    accepted,       \* the times of each IP's accepted contact submissions
    contactResponse, \* the last response of POST /api/contact
    routeRequest,   \* method and path of the last request to the product routes
    routeResponse   \* the handler that answered it, and its answer

costVars == <<request, response, fetched>>
scoreVars == <<product, scoredProduct>>
storeVars == <<storeRequest, storeResponse>>
flightVars == <<flights>>
loginVars == <<admins, loginLimiter, logins, loginResponse, failed, reached>>

setupVars == <<setups>>
contactVars == <<rateLimiter, accepted, contactResponse>>
routeVars == <<routeRequest, routeResponse>>

vars ==
    <<catalog, costVars, scoreVars, storeVars, flightVars, now, loginVars,
      setupVars, contactVars, routeVars>>

(***************************************************************************)
(* Bounds of the model.                                                    *)
(***************************************************************************)
MaxProducts == 2    \* products in a catalog of several products
MaxPriceLen == 3    \* characters of a generated price-range text
MaxRatingLen == 3   \* characters of a generated rating text
MaxStoreRows == 1   \* products in the catalog that the PATCH routes update
MaxTicks == 2       \* steps of the clock
MaxHits == 6        \* requests of one IP that loginLimiter counts in a window
MaxContactTicks == 2 \* steps of the clock of the contact form

(***************************************************************************)
(* JavaScript numbers and parseFloat.                                      *)
(***************************************************************************)
Digits == {"0", "1", "2", "3", "4", "5", "6", "7", "8", "9"}

DigitValue(c) ==
    CASE c = "0" -> 0 [] c = "1" -> 1 [] c = "2" -> 2 [] c = "3" -> 3
      [] c = "4" -> 4 [] c = "5" -> 5 [] c = "6" -> 6 [] c = "7" -> 7
      [] c = "8" -> 8 [] c = "9" -> 9

\* A JavaScript number: NaN, or the rational num/den (den a power of ten).
NaN == [isNaN |-> TRUE, num |-> 0, den |-> 1]

Number(n, d) == [isNaN |-> FALSE, num |-> n, den |-> d]

RECURSIVE Pow10(_)
Pow10(n) == IF n = 0 THEN 1 ELSE 10 * Pow10(n - 1)

\* How many consecutive decimal digits s has from position i on.
RECURSIVE DigitRun(_, _)
DigitRun(s, i) ==
    IF i <= Len(s) /\ s[i] \in Digits THEN 1 + DigitRun(s, i + 1) ELSE 0

\* The value of the n digits of s that start at position i.
RECURSIVE Decimal(_, _, _)
Decimal(s, i, n) ==
    IF n = 0 THEN 0
    ELSE 10 * Decimal(s, i, n - 1) + DigitValue(s[i + n - 1])

\* parseFloat: an optional sign, digits, an optional point and digits, read
\* from the start of the text; whatever follows is ignored; NaN when no
\* digit was read.  (Leading white space, exponents and "Infinity" do not
\* occur in the texts of this model.)
parseFloat(s) ==
    LET signLen == IF Len(s) >= 1 /\ s[1] \in {"+", "-"} THEN 1 ELSE 0
        negative == signLen = 1 /\ s[1] = "-"
        intLen == DigitRun(s, signLen + 1)
        dotAt == signLen + intLen + 1
        hasDot == dotAt <= Len(s) /\ s[dotAt] = "."
        fracLen == IF hasDot THEN DigitRun(s, dotAt + 1) ELSE 0
        magnitude == Decimal(s, signLen + 1, intLen) * Pow10(fracLen)
                        + Decimal(s, dotAt + 1, fracLen)
    IN  IF intLen + fracLen = 0 THEN NaN
        ELSE Number(IF negative THEN 0 - magnitude ELSE magnitude, Pow10(fracLen))

(***************************************************************************)
(* POST /api/cost-calculator.                                              *)
(***************************************************************************)
UsageEnum == {"light", "medium", "heavy"}
MaterialEnum == {"mild-steel", "chromoly", "aluminum", "stainless-steel"}
TimelineEnum == {"1-2-years", "3-5-years", "5-plus-years"}

\* costCalculationRequestSchema: the closed enumeration of each key.
costCalculationRequestSchema ==
    [usage |-> UsageEnum, material |-> MaterialEnum, timeline |-> TimelineEnum]

SchemaKeys == <<"usage", "material", "timeline">>

\* Mutant: usage is taken as free text, only material and timeline checked.
ZodIssuesUsageUnchecked(body) ==
    SelectSeq(<<"material", "timeline">>,
              LAMBDA k : body[k] \notin costCalculationRequestSchema[k])

\* The paths of the issues of the ZodError that schema.parse(body) throws:
\* one per key whose value is outside its enumeration, in key order; empty
\* when the body parses.
ZodIssues(body) ==
    SelectSeq(SchemaKeys, LAMBDA k : body[k] \notin costCalculationRequestSchema[k])

\* Fortieths of a currency unit in one unit.
Scale == 2 * 20

\* bender.priceRange.replace(/[^0-9]/g, '')
StripNonDigits(text) == SelectSeq(text, LAMBDA c : c \in Digits)

\* Mutant: the "|| 1000" default is missing (NaN read as 0).
initialCostNoDefault(bender) ==
    parseFloat(SelectSeq(bender.priceRange, LAMBDA c : c \in Digits)).num

\* parseFloat(bender.priceRange.replace(/[^0-9]/g, '')) || 1000, in units.
\* A text of digits alone parses to a whole number (den = 1); NaN and 0 are
\* falsy.
initialCost(bender) ==
    LET parsed == parseFloat(StripNonDigits(bender.priceRange))
    IN  IF parsed.isNaN \/ parsed.num = 0 THEN 1000 ELSE parsed.num

\* Mutant: medium and heavy share the multiplier 1.5.
usageMultiplierMediumAsHeavy(usage) ==
    IF usage = "light" THEN 1 ELSE 3

\* usageMultiplier, in halves: 0.5, 1, 1.5.
usageMultiplier(usage) ==
    IF usage = "light" THEN 1 ELSE IF usage = "medium" THEN 2 ELSE 3

timelineMultiplier(timeline) ==
    IF timeline = "1-2-years" THEN 1 ELSE IF timeline = "3-5-years" THEN 2 ELSE 3

\* The element of the map with the choices a mutant changes left open:
\* which origin is domestic, whether downtime enters the total, and a
\* surcharge (in fortieths) on maintenance.
CalculationWith(bender, requestData, domestic, countDowntime, surcharge) ==
    LET initial ==
            LET parsed == parseFloat(SelectSeq(bender.priceRange,
                                               LAMBDA c : c \in Digits))
            IN  IF parsed.isNaN \/ parsed.num = 0 THEN 1000 ELSE parsed.num
        u == IF requestData.usage = "light" THEN 1
             ELSE IF requestData.usage = "medium" THEN 2 ELSE 3
        t == IF requestData.timeline = "1-2-years" THEN 1
             ELSE IF requestData.timeline = "3-5-years" THEN 2 ELSE 3
        maintenanceCost ==
            (IF domestic THEN initial * u * t ELSE initial * 3 * u * t) + surcharge
        supportCost == IF domestic THEN 4000 * t ELSE 12000 * t
        downtimeCost == IF domestic THEN 1000 * u * t ELSE 4000 * u * t
    IN  [id |-> bender.id,
         initialCost |-> initial * 40,
         maintenanceCost |-> maintenanceCost,
         supportCost |-> supportCost,
         downtimeCost |-> downtimeCost,
         totalCost |-> initial * 40 + maintenanceCost + supportCost
                        + (IF countDowntime THEN downtimeCost ELSE 0),
         countryOfOrigin |-> bender.countryOfOrigin]

\* Mutant: downtimeCost is left out of totalCost.
CalculationTotalWithoutDowntime(bender, requestData) ==
    CalculationWith(bender, requestData, bender.countryOfOrigin = "USA", FALSE, 0)

\* Mutant: the origin test is inverted, the domestic rates go to the others.
CalculationOriginInverted(bender, requestData) ==
    CalculationWith(bender, requestData, bender.countryOfOrigin # "USA", TRUE, 0)

\* Mutant: stainless steel adds 10 units of maintenance.
CalculationUsesMaterial(bender, requestData) ==
    CalculationWith(bender, requestData, bender.countryOfOrigin = "USA", TRUE,
                    IF requestData.material = "stainless-steel" THEN 400 ELSE 0)

\* One element of tubeBenders.map(...): amounts in fortieths.
Calculation(bender, requestData) ==
    LET initial == initialCost(bender)
        u == usageMultiplier(requestData.usage)
        t == timelineMultiplier(requestData.timeline)
        domestic == bender.countryOfOrigin = "USA"
        \* initialCost * 0.05 (or 0.15) * usageMultiplier * timelineMultiplier
        maintenanceCost == IF domestic THEN initial * 1 * u * t
                                       ELSE initial * 3 * u * t
        \* 100 (or 300) * timelineMultiplier
        supportCost == IF domestic THEN 100 * t * Scale
                                   ELSE 300 * t * Scale
        \* 50 (or 200) * usageMultiplier * timelineMultiplier
        downtimeCost == IF domestic THEN 50 * u * t * 20
                                    ELSE 200 * u * t * 20
    IN  [id |-> bender.id,
         initialCost |-> initial * Scale,
         maintenanceCost |-> maintenanceCost,
         supportCost |-> supportCost,
         downtimeCost |-> downtimeCost,
         totalCost |-> initial * Scale + maintenanceCost + supportCost + downtimeCost,
         countryOfOrigin |-> bender.countryOfOrigin]

\* Mutant: the comparator is b.totalCost - a.totalCost.
RECURSIVE InsertByTotalCostDescending(_, _)
InsertByTotalCostDescending(e, sorted) ==
    IF sorted = <<>> THEN <<e>>
    ELSE IF e.totalCost > sorted[1].totalCost THEN <<e>> \o sorted
    ELSE <<sorted[1]>> \o InsertByTotalCostDescending(e, Tail(sorted))

\* Mutant: the sort is missing.
SortByTotalCostMissing(calcs) == calcs

\* Mutant: an element goes before the elements that cost the same.
RECURSIVE InsertByTotalCostBeforeEqual(_, _)
InsertByTotalCostBeforeEqual(e, sorted) ==
    IF sorted = <<>> THEN <<e>>
    ELSE IF e.totalCost <= Head(sorted).totalCost THEN <<e>> \o sorted
    ELSE <<Head(sorted)>> \o InsertByTotalCostBeforeEqual(e, Tail(sorted))

\* calculations.sort((a, b) => a.totalCost - b.totalCost): Array.prototype.sort
\* is stable, so an element goes after the elements that do not cost more.
RECURSIVE InsertByTotalCost(_, _)
InsertByTotalCost(e, sorted) ==
    IF sorted = <<>> THEN <<e>>
    ELSE IF e.totalCost < Head(sorted).totalCost THEN <<e>> \o sorted
    ELSE <<Head(sorted)>> \o InsertByTotalCost(e, Tail(sorted))

RECURSIVE SortByTotalCost(_)
SortByTotalCost(calcs) ==
    IF calcs = <<>> THEN <<>>
    ELSE InsertByTotalCost(calcs[Len(calcs)],
                           SortByTotalCost(SubSeq(calcs, 1, Len(calcs) - 1)))

NoRequest == [usage |-> "", material |-> "", timeline |-> ""]

NoCalculation ==
    [id |-> 0, initialCost |-> 0, maintenanceCost |-> 0, supportCost |-> 0,
     downtimeCost |-> 0, totalCost |-> 0, countryOfOrigin |-> ""]

\* A response: its status and the keys of its JSON body; a key that is not
\* in keys is absent from the body and its field here is a placeholder.
NoResponse ==
    [status |-> 0, keys |-> {}, request |-> NoRequest, calculations |-> <<>>,
     bestValue |-> NoCalculation, savings |-> 0, message |-> "", errors |-> <<>>]

\* The handler, from schema.parse to the response.
CostCalculatorResponse(body, tubeBenders) ==
    LET issues == ZodIssues(body)
        requestData == [k \in {"usage", "material", "timeline"} |-> body[k]]
        calculations ==
            SortByTotalCost([i \in 1..Len(tubeBenders) |->
                                Calculation(tubeBenders[i], requestData)])
    IN  IF issues # <<>>
        THEN \* ZodError: res.status(400).json({message, errors})
             [NoResponse EXCEPT !.status = 400,
                                !.keys = {"message", "errors"},
                                !.message = "Invalid request data",
                                !.errors = issues]
        ELSE IF calculations = <<>>
        THEN \* calculations[calculations.length - 1] is undefined: reading
             \* its totalCost throws a TypeError, which the catch answers
             [NoResponse EXCEPT !.status = 500,
                                !.keys = {"message"},
                                !.message = "Failed to calculate costs"]
        ELSE [NoResponse EXCEPT
                !.status = 200,
                !.keys = {"request", "calculations", "bestValue", "savings"},
                !.request = requestData,
                !.calculations = calculations,
                !.bestValue = calculations[1],
                !.savings = calculations[Len(calculations)].totalCost
                                - calculations[1].totalCost]

(***************************************************************************)
(* ScoringBreakdown (scoring-breakdown.tsx).                               *)
(***************************************************************************)
\* x * 10
TimesTen(x) == IF x.isNaN THEN NaN ELSE Number(10 * x.num, x.den)

\* Mutant: Math.floor in place of Math.round.
MathRoundAsFloor(x) ==
    IF x.isNaN THEN NaN ELSE Number(x.num \div x.den, 1)

\* Math.round: the nearest integer, a half going up; NaN stays NaN.
MathRound(x) ==
    IF x.isNaN THEN NaN ELSE Number((2 * x.num + x.den) \div (2 * x.den), 1)

\* calculateTubeBenderScore threw.
Threw == [threw |-> TRUE, totalScore |-> NaN, scoreBreakdown |-> <<>>]

\* a + b of two numbers
Plus(a, b) ==
    IF a.isNaN \/ b.isNaN THEN NaN ELSE Number(a.num * b.den + b.num * a.den, a.den * b.den)

RECURSIVE SumOfPoints(_)
SumOfPoints(breakdown) ==
    IF breakdown = <<>> THEN Number(0, 1)
    ELSE Plus(SumOfPoints(SubSeq(breakdown, 1, Len(breakdown) - 1)),
              breakdown[Len(breakdown)].points)

\* The breakdowns of the primary path: the support-quality rule (10 points
\* at most) and the other rules taken together (90 points at most), each
\* awarding within its maximum.
PrimaryBreakdowns ==
    {<<[criteria |-> "Support Quality", points |-> Number(a, 1), maxPoints |-> 10],
       [criteria |-> "Other Criteria", points |-> Number(b, 1), maxPoints |-> 90]>> :
        a \in {3, 7, 10}, b \in {0, 45, 90}}

\* calculateTubeBenderScore(product): throws for a product without the
\* structured scoring fields, otherwise returns a breakdown and its sum.
calculateTubeBenderScore(p) ==
    IF ~p.newFields THEN {Threw}
    ELSE {[threw |-> FALSE, totalScore |-> SumOfPoints(b), scoreBreakdown |-> b] :
            b \in PrimaryBreakdowns}

\* The try/catch of ScoringBreakdown: scoredProduct for one outcome of the
\* primary path.  path records which branch produced it.
ScoredProduct(p, primary) ==
    IF ~primary.threw
    THEN [rating |-> p.rating, newFields |-> p.newFields,
          path |-> "primary",
          totalScore |-> primary.totalScore,
          scoreBreakdown |-> primary.scoreBreakdown]
    ELSE LET baseScore == MathRound(TimesTen(parseFloat(p.rating)))
         IN  [rating |-> p.rating, newFields |-> p.newFields,
              path |-> "fallback",
              totalScore |-> baseScore,
              scoreBreakdown |->
                  <<[criteria |-> "Overall Rating", points |-> baseScore,
                     maxPoints |-> 100]>>]

(***************************************************************************)
(* PATCH /api/tube-benders/:id and PATCH /api/tube-benders/:id/category.   *)
(***************************************************************************)
\* parseInt(req.params.id): an optional sign and digits from the start of
\* the text, NaN when there is no digit.
parseInt(s) ==
    LET signLen == IF Len(s) >= 1 /\ s[1] \in {"+", "-"} THEN 1 ELSE 0
        intLen == DigitRun(s, signLen + 1)
        magnitude == Decimal(s, signLen + 1, intLen)
    IN  IF intLen = 0 THEN NaN
        ELSE Number(IF signLen = 1 /\ s[1] = "-" THEN 0 - magnitude ELSE magnitude, 1)

\* category.trim()
RECURSIVE TrimStart(_)
TrimStart(text) ==
    IF text # <<>> /\ text[1] = " " THEN TrimStart(Tail(text)) ELSE text

RECURSIVE TrimEnd(_)
TrimEnd(text) ==
    IF text # <<>> /\ text[Len(text)] = " "
    THEN TrimEnd(SubSeq(text, 1, Len(text) - 1)) ELSE text

trim(text) == TrimEnd(TrimStart(text))

\* authenticateToken, then requireAdmin: the status they answer with, 0 when
\* both call next().  A request carries no token, a token that does not
\* verify, the token of a user whose role is not admin, or an admin's token.
AdminGuard(credential) ==
    CASE credential = "none" -> 401
      [] credential = "invalid" -> 403
      [] credential = "user" -> 403
      [] credential = "admin" -> 0

\* Whether the table has a row with this id.
HasRow(rows, id) == \E i \in 1..Len(rows) : rows[i].id = id

\* storage.updateTubeBender(id, updates): the row with the fields of updates
\* written over it.
updateTubeBender(rows, id, updates) ==
    [i \in 1..Len(rows) |->
        IF rows[i].id # id THEN rows[i]
        ELSE [k \in DOMAIN rows[i] |->
                IF k \in DOMAIN updates THEN updates[k] ELSE rows[i][k]]]

\* storage.updateTubeBenderCategory(id, category)
updateTubeBenderCategory(rows, id, category) ==
    [i \in 1..Len(rows) |->
        IF rows[i].id # id THEN rows[i] ELSE [rows[i] EXCEPT !.category = category]]

\* The outcome of a PATCH request: its status and the table after it.
StoreOutcome(status, rows) == [status |-> status, rows |-> rows]

\* app.patch("/api/tube-benders/:id", authenticateToken, requireAdmin, ...)
PatchTubeBender(rows, req) ==
    LET id == parseInt(req.id)
    IN  IF AdminGuard(req.credential) # 0
        THEN StoreOutcome(AdminGuard(req.credential), rows)
        ELSE IF id.isNaN THEN StoreOutcome(400, rows)
        ELSE IF ~HasRow(rows, id.num) THEN StoreOutcome(404, rows)
        ELSE StoreOutcome(200, updateTubeBender(rows, id.num, req.body))

\* app.patch("/api/tube-benders/:id/category", ...): no middleware.
PatchCategory(rows, req) ==
    LET id == parseInt(req.id)
    IN  IF id.isNaN THEN StoreOutcome(400, rows)
        ELSE IF req.category.kind # "string" \/ req.category.text = <<>>
        THEN StoreOutcome(400, rows)
        ELSE IF ~HasRow(rows, id.num) THEN StoreOutcome(404, rows)
        ELSE StoreOutcome(200,
                updateTubeBenderCategory(rows, id.num, trim(req.category.text)))

(***************************************************************************)
(* POST /api/auth/login.                                                   *)
(***************************************************************************)
\* loginLimiter = rateLimit({windowMs: 15 * 60 * 1000, max: 5, ...})
windowMs == 15 * 60 * 1000

loginMax == 5

\* null, in a column that holds a time.
NoTime == -1

\* express-rate-limit keeps, for each IP, the hits of its current window and
\* the time the window ends; a hit after that time starts a new window.
NoWindow == [hits |-> 0, resetAt |-> NoTime]

Hit(window, time) ==
    IF time >= window.resetAt
    THEN [hits |-> 1, resetAt |-> time + windowMs]
    ELSE [window EXCEPT !.hits = @ + 1]

\* Mutant: one request more than max passes.
LimitedAboveMaxPlusOne(window) == window.hits > loginMax + 1

\* The request that made this hit is answered 429.
Limited(window) == window.hits > loginMax

\* validateLoginRequest: loginSchema wants a username of 3 to 50 characters
\* and a password of 8 to 100; "" stands for a username that is not that.
validateLoginRequest(body) ==
    /\ body.username # ""
    /\ Len(body.password) >= 8
    /\ Len(body.password) <= 100

\* AuthService: 30 minutes of lockout after 5 failed attempts.
LockoutMs == 30 * 60 * 1000

MaxLoginAttempts == 5

hashPassword(password) == [hashOf |-> password]

verifyPassword(password, passwordHash) == passwordHash = hashPassword(password)

isAccountLocked(user, time) == user.lockedUntil # NoTime /\ user.lockedUntil > time

shouldLockAccount(attempts) == attempts >= MaxLoginAttempts

getLockoutExpiry(time) == time + LockoutMs

NoUser ==
    [id |-> 0, username |-> "", email |-> "",
     passwordHash |-> hashPassword(<<>>), isActive |-> FALSE, loginAttempts |-> 0, lockedUntil |-> NoTime,
     lastLogin |-> NoTime]

\* storage.getAdminByUsername(username): the row, or NoUser for undefined.
getAdminByUsername(rows, username) ==
    IF \E i \in 1..Len(rows) : rows[i].username = username
    THEN rows[CHOOSE i \in 1..Len(rows) : rows[i].username = username]
    ELSE NoUser

\* storage.updateAdminLoginAttempts(id, attempts, lockedUntil); the handler
\* passes undefined for lockedUntil when it does not lock, and the storage
\* then either clears the column or leaves it (keep).
updateAdminLoginAttempts(rows, id, attempts, lockedUntil, keep) ==
    [i \in 1..Len(rows) |->
        IF rows[i].id # id THEN rows[i]
        ELSE [rows[i] EXCEPT
                !.loginAttempts = attempts,
                !.lockedUntil = IF lockedUntil = NoTime /\ keep THEN @
                                ELSE lockedUntil]]

\* storage.updateAdminLastLogin(id, lastLogin): "reset attempts and update
\* last login".
updateAdminLastLogin(rows, id, lastLogin) ==
    [i \in 1..Len(rows) |->
        IF rows[i].id # id THEN rows[i]
        ELSE [rows[i] EXCEPT !.lastLogin = lastLogin, !.loginAttempts = 0,
                             !.lockedUntil = NoTime]]

(***************************************************************************)
(* POST /api/auth/setup.                                                   *)
(***************************************************************************)
\* !username || !email || !password
SetupFieldMissing(body) ==
    body.username = "" \/ body.email = "" \/ body.password = <<>>

\* storage.createAdmin({...}): the new row, with the next id.  username and
\* email are unique columns: an insert that repeats one is refused.
CreateAdminRefused(rows, body) ==
    \E i \in 1..Len(rows) :
        rows[i].username = body.username \/ rows[i].email = body.email

createAdmin(rows, body) ==
    Append(rows,
        [id |-> Len(rows) + 1, username |-> body.username, email |-> body.email,
         passwordHash |-> hashPassword(body.password), isActive |-> TRUE,
         loginAttempts |-> 0, lockedUntil |-> NoTime, lastLogin |-> NoTime])

(***************************************************************************)
(* POST /api/contact.                                                      *)
(***************************************************************************)
\* timeSpent < 10000, in JavaScript: false when timeSpent is undefined.
LessThan(x, n) == ~x.isNaN /\ x.num < n * x.den

\* The server-side spam validation: the error it answers with, "" when the
\* submission passes.  Of the texts, the body keeps what the checks look at:
\* whether each is empty, the length of the message, and whether one of the
\* spamPatterns matches.
ContactError(body) ==
    IF body.honeypot THEN "Bot detection triggered"
    ELSE IF LessThan(body.timeSpent, 10000) THEN "Form submitted too quickly"
    ELSE IF ~body.name \/ ~body.email \/ ~body.subject \/ body.messageLength = 0
    THEN "Missing required fields"
    ELSE IF body.messageLength < 20 THEN "Message too short"
    ELSE IF body.prohibited THEN "Message contains prohibited content"
    ELSE ""

\* clientHistory.filter((time) => now - time < 3600000)
RECURSIVE recentSubmissions(_, _)
recentSubmissions(clientHistory, time) ==
    IF clientHistory = <<>> THEN <<>>
    ELSE LET rest == recentSubmissions(Tail(clientHistory), time)
         IN  IF time - Head(clientHistory) < 3600000
             THEN <<Head(clientHistory)>> \o rest ELSE rest

\* Mutant: a fourth submission passes.
ContactLimitedAboveThree(recent) == Len(recent) > 3

\* recentSubmissions.length >= 3
ContactLimited(recent) == Len(recent) >= 3

(***************************************************************************)
(* GET /api/tube-benders and the routes below it.  A path is the sequence  *)
(* of its segments, a segment a sequence of one-character strings.         *)
(***************************************************************************)

Api == <<"a", "p", "i">>
TubeBendersSegment == <<"t", "u", "b", "e", "-", "b", "e", "n", "d", "e", "r", "s">>
RecommendedSegment == <<"r", "e", "c", "o", "m", "m", "e", "n", "d", "e", "d">>
CategorySegment == <<"c", "a", "t", "e", "g", "o", "r", "y">>
BrandSegment == <<"b", "r", "a", "n", "d">>
Param == <<":">>

\* The GET routes of /api/tube-benders in the order registerRoutes adds them.
GetRoutes ==
    <<[path |-> <<Api, TubeBendersSegment>>, handler |-> "getTubeBenders"],
      [path |-> <<Api, TubeBendersSegment, Param>>, handler |-> "getTubeBender"],
      [path |-> <<Api, TubeBendersSegment, RecommendedSegment>>,
       handler |-> "getRecommendedTubeBenders"],
      [path |-> <<Api, TubeBendersSegment, CategorySegment, Param>>,
       handler |-> "getTubeBendersByCategory"],
      [path |-> <<Api, TubeBendersSegment, BrandSegment, Param>>,
       handler |-> "getTubeBendersByBrand"]>>

\* A route's path matches a request's path segment by segment; a parameter
\* matches any segment that is not empty.
MatchesRoute(routePath, path) ==
    /\ Len(routePath) = Len(path)
    /\ \A i \in 1..Len(path) :
            IF routePath[i] = Param THEN Len(path[i]) > 0 ELSE routePath[i] = path[i]

\* The router hands a request to the first route added whose path matches
\* (0: none of these routes).
Dispatch(path) ==
    LET matching == {i \in 1..Len(GetRoutes) : MatchesRoute(GetRoutes[i].path, path)}
    IN  IF matching = {} THEN 0
        ELSE CHOOSE i \in matching : \A j \in matching : i <= j

getRecommendedTubeBenders(rows) ==
    SelectSeq(rows, LAMBDA row : row.isRecommended)

getTubeBendersByCategory(rows, category) ==
    SelectSeq(rows, LAMBDA row : row.category = category)

getTubeBendersByBrand(rows, brand) ==
    SelectSeq(rows, LAMBDA row : row.brand = brand)

getTubeBender(rows, id) ==
    SelectSeq(rows, LAMBDA row : row.id = id)

RouteAnswer(handler, status, message, rows) ==
    [handler |-> handler, status |-> status, message |-> message, rows |-> rows]

\* The handler of GET /api/tube-benders/:id.
GetTubeBenderById(rows, param) ==
    LET id == parseInt(param)
    IN  IF id.isNaN
        THEN RouteAnswer("getTubeBender", 400, "Invalid tube bender ID", <<>>)
        ELSE IF getTubeBender(rows, id.num) = <<>>
        THEN RouteAnswer("getTubeBender", 404, "Tube bender not found", <<>>)
        ELSE RouteAnswer("getTubeBender", 200, "", getTubeBender(rows, id.num))

\* The answer to GET path: that of the handler the router dispatches to.
GetAnswer(rows, path) ==
    LET route == Dispatch(path)
        handler == IF route = 0 THEN "" ELSE GetRoutes[route].handler
    IN  IF route = 0 THEN RouteAnswer("", 404, "", <<>>)
        ELSE IF handler = "getTubeBenders" THEN RouteAnswer(handler, 200, "", rows)
        ELSE IF handler = "getTubeBender" THEN GetTubeBenderById(rows, path[3])
        ELSE IF handler = "getRecommendedTubeBenders"
        THEN RouteAnswer(handler, 200, "", getRecommendedTubeBenders(rows))
        ELSE IF handler = "getTubeBendersByCategory"
        THEN RouteAnswer(handler, 200, "", getTubeBendersByCategory(rows, path[4]))
        ELSE RouteAnswer(handler, 200, "", getTubeBendersByBrand(rows, path[4]))

(***************************************************************************)
(* The inputs of the model.                                                *)
(***************************************************************************)
SeqsUpTo(S, n) == UNION {[1..k -> S] : k \in 0..n}

PriceAlphabet == {"$", "0", "1"}

ExamplePrice == <<"$", "1", "0", "0", "0", "+">>

\* The price texts of the catalogs of several products: the spec's example,
\* a text without digits, and a text with digits on both sides of a comma.
CatalogPrices == {ExamplePrice, <<"$">>, <<"$", "1", ",", "5">>}

Origins == {"USA", "China"}

\* Rows get their serial ids in catalog order.
MkCatalog(rows) ==
    [i \in 1..Len(rows) |->
        [id |-> i, priceRange |-> rows[i][1], countryOfOrigin |-> rows[i][2]]]

Catalogs ==
    {MkCatalog(rows) : rows \in SeqsUpTo(CatalogPrices \X Origins, MaxProducts)}
        \cup {MkCatalog(<<row>>) :
                row \in SeqsUpTo(PriceAlphabet, MaxPriceLen) \X (Origins \cup {"usa"})}

RequestBodies ==
    [usage : UsageEnum \cup {"extreme"},
     material : MaterialEnum \cup {"titanium"},
     timeline : TimelineEnum \cup {"forever"}]

RatingAlphabet == {"0", "1", "9", ".", "-", "x"}

\* The product records ScoringBreakdown is rendered for: rating is free text
\* (text("rating").notNull()), the newer scoring fields are there or not.
ScoringProducts ==
    [rating : SeqsUpTo(RatingAlphabet, MaxRatingLen), newFields : BOOLEAN]

NoProduct == [rating |-> <<>>, newFields |-> FALSE]

\* Not rendered yet.
NoScore ==
    [rating |-> <<>>, newFields |-> FALSE, path |-> "none",
     totalScore |-> NaN, scoreBreakdown |-> <<>>]

Credentials == {"none", "invalid", "user", "admin"}

IdParams == {<<"1">>, <<"2">>, <<"x">>}

\* The tables of the PATCH routes: rows with their 1-10 scores and category.
StoreCatalogs ==
    {[i \in 1..k |->
        [id |-> i, priceRange |-> ExamplePrice, countryOfOrigin |-> "USA",
         category |-> <<"b">>, supportQuality |-> 9, buildQuality |-> 8,
         valueScore |-> 7]] : k \in 0..MaxStoreRows}

\* req.body of the update route: any JSON object; here none or one field.
PatchBodies ==
    {<<>>, [supportQuality |-> 11], [buildQuality |-> 0], [valueScore |-> 10],
     [category |-> <<"p">>]}

\* req.body.category: absent, not a string, or a string.
CategoryInputs ==
    {[kind |-> "missing", text |-> <<>>], [kind |-> "number", text |-> <<>>]}
        \cup {[kind |-> "string", text |-> t] :
                t \in {<<>>, <<" ">>, <<" ", "p", " ">>}}

\* Clients with a cost-calculator request of their own.
Clients == {1, 2}

\* The bodies they send: two valid ones and one that fails the schema.
FlightBodies ==
    {[usage |-> "heavy", material |-> "mild-steel", timeline |-> "5-plus-years"],
     [usage |-> "light", material |-> "chromoly", timeline |-> "1-2-years"],
     [usage |-> "extreme", material |-> "mild-steel", timeline |-> "1-2-years"]}

\* Updates an admin makes to the fields the calculator reads.
CostPatchBodies ==
    {[countryOfOrigin |-> "China"], [countryOfOrigin |-> "USA"],
     [priceRange |-> <<"$">>]}

NoFlight ==
    [stage |-> "idle", body |-> NoRequest, tubeBenders |-> <<>>,
     response |-> NoResponse]

IPs == {"10.0.0.1", "10.0.0.2"}

\* The steps of the clock: 15 minutes.
TickMs == 15 * 60 * 1000

RightPassword == <<"p", "a", "s", "s", "w", "o", "r", "d">>

WrongPassword == <<"l", "e", "t", "m", "e", "i", "n", "1">>

\* An account in use and a disabled one.
LoginAdmins ==
    <<[id |-> 1, username |-> "admin", email |-> "admin@shop",
       passwordHash |-> hashPassword(RightPassword), isActive |-> TRUE, loginAttempts |-> 0, lockedUntil |-> NoTime,
       lastLogin |-> NoTime],
      [id |-> 2, username |-> "old", email |-> "old@shop",
       passwordHash |-> hashPassword(RightPassword), isActive |-> FALSE, loginAttempts |-> 0, lockedUntil |-> NoTime,
       lastLogin |-> NoTime]>>

\* req.body of a login: a known, a disabled, an unknown or an invalid
\* username, with the right, a wrong or a too short password.
LoginBodies ==
    {[username |-> "admin", password |-> RightPassword],
     [username |-> "admin", password |-> WrongPassword],
     [username |-> "admin", password |-> <<"x">>],
     [username |-> "old", password |-> RightPassword],
     [username |-> "old", password |-> WrongPassword],
     [username |-> "ghost", password |-> WrongPassword],
     [username |-> "", password |-> RightPassword]}

\* The login requests that can be awaiting verifyPassword at one time; of
\* the row a request read, it keeps the fields the handler goes on to use.
LoginSlots == {1, 2}

NoLogin == [stage |-> "idle", password |-> <<>>, user |-> NoUser]

\* A response: its status, whether it carries a token, and the username the
\* handler looked up and the error it gave ("" when the request was answered
\* before the handler).
NoLoginResponse == [username |-> "", status |-> 0, error |-> "", token |-> FALSE]

\* req.body of a setup: complete for one of two new admins, or with a
\* username, an email or a password missing, or with a password of 7.
SetupBodies ==
    {[username |-> "root", email |-> "root@shop", password |-> RightPassword],
     [username |-> "eve", email |-> "eve@shop", password |-> RightPassword],
     [username |-> "", email |-> "root@shop", password |-> RightPassword],
     [username |-> "root", email |-> "", password |-> RightPassword],
     [username |-> "root", email |-> "root@shop", password |-> <<>>],
     [username |-> "root", email |-> "root@shop",
      password |-> <<"s", "e", "v", "e", "n", "c", "h">>]}

\* The callers of the setup route.
SetupSlots == {1, 2}

NoSetupBody == [username |-> "", email |-> "", password |-> <<>>]

NoSetup == [stage |-> "idle", body |-> NoSetupBody, status |-> 0]

\* The steps of the contact form's clock: half an hour.
ContactTickMs == 30 * 60 * 1000

\* Mutant: the submission is recorded before the quota is tested.
ContactHistoryRecordedBeforeLimit(clientHistory, time, status) ==
    IF status \in {200, 429}
    THEN Append(recentSubmissions(clientHistory, time), time)
    ELSE clientHistory

\* The history of the client after a submission answered with status: set to
\* the recent submissions and this one if it is accepted, else left alone.
ContactHistoryAfter(clientHistory, time, status) ==
    IF status = 200
    THEN Append(recentSubmissions(clientHistory, time), time)
    ELSE clientHistory

ValidContact ==
    [honeypot |-> FALSE, timeSpent |-> Number(10000, 1), name |-> TRUE,
     email |-> TRUE, subject |-> TRUE, messageLength |-> 20, prohibited |-> FALSE]

\* req.body of a contact submission: one that passes, and one for each check.
ContactBodies ==
    {ValidContact,
     [ValidContact EXCEPT !.timeSpent = NaN],
     [ValidContact EXCEPT !.honeypot = TRUE],
     [ValidContact EXCEPT !.timeSpent = Number(9999, 1)],
     [ValidContact EXCEPT !.name = FALSE],
     [ValidContact EXCEPT !.messageLength = 19],
     [ValidContact EXCEPT !.prohibited = TRUE]}

NoContactBody ==
    [honeypot |-> FALSE, timeSpent |-> NaN, name |-> FALSE, email |-> FALSE,
     subject |-> FALSE, messageLength |-> 0, prohibited |-> FALSE]

\* A response: its status, and of its request the IP, the body, whether it
\* passed the spam validation, and whether 3 accepted submissions of the IP
\* were less than an hour old when it arrived.
NoContactResponse ==
    [ip |-> "", body |-> NoContactBody, passed |-> FALSE, full |-> FALSE, status |-> 0]

NoStoreRequest == [route |-> "none", credential |-> "none"]

NoStoreResponse == [status |-> 0, wrote |-> FALSE]

(***************************************************************************)
(* The state machine.                                                      *)
(***************************************************************************)
CostIdle ==
    /\ request = NoRequest
    /\ response = NoResponse
    /\ fetched = FALSE

ScoreIdle ==
    /\ product = NoProduct
    /\ scoredProduct = NoScore

StoreIdle ==
    /\ storeRequest = NoStoreRequest
    /\ storeResponse = NoStoreResponse

FlightIdle == flights = [c \in Clients |-> NoFlight]

\* No login yet, for these callers and this many requests at a time.
LoginIdle(ips, slots) ==
    /\ loginLimiter = [ip \in ips |-> NoWindow]
    /\ logins = [s \in slots |-> NoLogin]
    /\ loginResponse = NoLoginResponse
    /\ failed = 0
    /\ reached = [ip \in ips |-> 0]

SetupIdle == setups = [s \in SetupSlots |-> NoSetup]

ContactIdle ==
    /\ rateLimiter = [ip \in IPs |-> <<>>]
    /\ accepted = [ip \in IPs |-> <<>>]
    /\ contactResponse = NoContactResponse

\* The product table the GET routes read: rows of either category, recommended
\* or not, of one brand.
RouteRows ==
    {[id |-> 0, brand |-> <<"r">>, category |-> category,
      isRecommended |-> isRecommended] :
        category \in {<<"a">>, <<"b">>}, isRecommended \in BOOLEAN}

RouteCatalogs ==
    UNION {{[i \in 1..k |-> [rows[i] EXCEPT !.id = i]] : rows \in [1..k -> RouteRows]} :
            k \in 0..MaxProducts}

\* The paths requested: the list, an id that is a number, one that is not,
\* the recommended list, a category, a brand, and paths no route has.
RoutePaths ==
    {<<Api, TubeBendersSegment>>,
     <<Api, TubeBendersSegment, <<"1">>>>,
     <<Api, TubeBendersSegment, <<"3">>>>,
     <<Api, TubeBendersSegment, <<"x">>>>,
     <<Api, TubeBendersSegment, RecommendedSegment>>,
     <<Api, TubeBendersSegment, CategorySegment, <<"a">>>>,
     <<Api, TubeBendersSegment, BrandSegment, <<"r">>>>,
     <<Api, TubeBendersSegment, BrandSegment, <<>>>>,
     <<Api>>}

NoRouteRequest == <<>>
NoRouteResponse == RouteAnswer("", 0, "", <<>>)

RouteIdle ==
    /\ routeRequest = NoRouteRequest
    /\ routeResponse = NoRouteResponse

\* No admin in the table, no login, setup or contact submission yet, the
\* clock at its start.
ServerIdle ==
    /\ now = 0
    /\ admins = <<>>
    /\ LoginIdle(IPs, LoginSlots)
    /\ SetupIdle
    /\ ContactIdle
    /\ RouteIdle

Init ==
    /\ catalog \in Catalogs
    /\ CostIdle
    /\ ScoreIdle
    /\ StoreIdle
    /\ FlightIdle
    /\ ServerIdle

\* app.post("/api/cost-calculator", ...)
CostCalculator ==
    \E body \in RequestBodies :
        /\ request' = body
        /\ fetched' = (ZodIssues(body) = <<>>)
        /\ response' = CostCalculatorResponse(body, catalog)
        /\ UNCHANGED <<catalog, scoreVars, storeVars, flightVars, now, loginVars, setupVars, contactVars, routeVars>>

Next == CostCalculator

Spec == Init /\ [][Next]_vars

\* The scoring component on its own, mounted for some product record.
InitScore ==
    /\ catalog = <<>>
    /\ CostIdle
    /\ StoreIdle
    /\ FlightIdle
    /\ ServerIdle
    /\ product \in ScoringProducts
    /\ scoredProduct = NoScore

\* A render of ScoringBreakdown({ product }).
ScoringBreakdown ==
    \E primary \in calculateTubeBenderScore(product) :
        /\ scoredProduct' = ScoredProduct(product, primary)
        /\ UNCHANGED <<catalog, costVars, storeVars, flightVars, now, loginVars, setupVars, contactVars, product, routeVars>>

NextScore == ScoringBreakdown

SpecScore == InitScore /\ [][NextScore]_vars

\* The product table under the two PATCH routes.
InitStore ==
    /\ catalog \in StoreCatalogs
    /\ CostIdle
    /\ ScoreIdle
    /\ StoreIdle
    /\ FlightIdle
    /\ ServerIdle

\* One request to the update route, from arrival to response.
UpdateTubeBender ==
    \E credential \in Credentials, id \in IdParams, body \in PatchBodies :
        LET outcome ==
                PatchTubeBender(catalog,
                                [credential |-> credential, id |-> id, body |-> body])
        IN  /\ catalog' = outcome.rows
            /\ storeRequest' = [route |-> "update", credential |-> credential]
            /\ storeResponse' = [status |-> outcome.status,
                                 wrote |-> outcome.rows # catalog]
            /\ UNCHANGED <<costVars, scoreVars, flightVars, now, loginVars, setupVars, contactVars, routeVars>>

\* One request to the category route, from arrival to response.
UpdateCategory ==
    \E credential \in Credentials, id \in IdParams, category \in CategoryInputs :
        LET outcome ==
                PatchCategory(catalog,
                              [credential |-> credential, id |-> id,
                               category |-> category])
        IN  /\ catalog' = outcome.rows
            /\ storeRequest' = [route |-> "category", credential |-> credential]
            /\ storeResponse' = [status |-> outcome.status,
                                 wrote |-> outcome.rows # catalog]
            /\ UNCHANGED <<costVars, scoreVars, flightVars, now, loginVars, setupVars, contactVars, routeVars>>

NextStore == UpdateTubeBender \/ UpdateCategory

SpecStore == InitStore /\ [][NextStore]_vars

(***************************************************************************)
(* Properties of the cost calculator.                                      *)
(***************************************************************************)
\* A request has been answered.
Answered == response.status # 0

\* The body of the last request lies within the three enumerations.
ValidRequest ==
    /\ request.usage \in {"light", "medium", "heavy"}
    /\ request.material \in {"mild-steel", "chromoly", "aluminum", "stainless-steel"}
    /\ request.timeline \in {"1-2-years", "3-5-years", "5-plus-years"}

\* The catalog row a calculation was made from.
RowOf(calc) == catalog[calc.id]

Entries == {response.calculations[i] : i \in 1..Len(response.calculations)}

\* C1: for a valid request over a non-empty catalog, every entry of the
\* calculations list has totalCost equal to the sum of its initial,
\* maintenance, support and downtime costs, and none of the four is negative.
C1_TotalIsSumOfComponents ==
    (Answered /\ ValidRequest /\ catalog # <<>>) =>
        /\ response.status = 200
        /\ Len(response.calculations) = Len(catalog)
        /\ \A c \in Entries :
            /\ c.totalCost = c.initialCost + c.maintenanceCost
                                + c.supportCost + c.downtimeCost
            /\ c.initialCost >= 0
            /\ c.maintenanceCost >= 0
            /\ c.supportCost >= 0
            /\ c.downtimeCost >= 0

C1_Witness ==
    /\ response.status = 200
    /\ Len(response.calculations) >= 2
    /\ \E c \in Entries :
        /\ c.maintenanceCost > 0 /\ c.supportCost > 0 /\ c.downtimeCost > 0
        /\ c.totalCost > c.initialCost + c.maintenanceCost + c.supportCost

\* C2: the multipliers and the two origin tiers.  With u = 0.5 / 1 / 1.5 for
\* light / medium / heavy and t = 1 / 2 / 3 for the three timelines, a row
\* whose origin is exactly "USA" gets maintenance = baseline * 0.05 * u * t,
\* support = 100 * t, downtime = 50 * u * t, and every other row gets
\* maintenance = baseline * 0.15 * u * t, support = 300 * t, downtime =
\* 200 * u * t; a row priced "$1000+" at medium / 3-5-years totals 1400 when
\* its origin is "USA" and 2300 when it is "China".  (Amounts are fortieths:
\* 40 * u is 20 / 40 / 60, and 0.05 * 40 * u is 1 / 2 / 3.)
C2_FortyU ==
    CASE request.usage = "light" -> 20
      [] request.usage = "medium" -> 40
      [] request.usage = "heavy" -> 60

C2_T ==
    CASE request.timeline = "1-2-years" -> 1
      [] request.timeline = "3-5-years" -> 2
      [] request.timeline = "5-plus-years" -> 3

C2_MultipliersAndOriginTiers ==
    response.status = 200 =>
        \A c \in Entries :
            /\ RowOf(c).countryOfOrigin = "USA" =>
                /\ 20 * 40 * c.maintenanceCost = c.initialCost * C2_FortyU * C2_T
                /\ c.supportCost = 40 * 100 * C2_T
                /\ c.downtimeCost = 50 * C2_FortyU * C2_T
            /\ RowOf(c).countryOfOrigin # "USA" =>
                /\ 20 * 40 * c.maintenanceCost = 3 * c.initialCost * C2_FortyU * C2_T
                /\ c.supportCost = 40 * 300 * C2_T
                /\ c.downtimeCost = 200 * C2_FortyU * C2_T
            /\ ( /\ RowOf(c).priceRange = <<"$", "1", "0", "0", "0", "+">>
                 /\ request.usage = "medium"
                 /\ request.timeline = "3-5-years" ) =>
                    /\ RowOf(c).countryOfOrigin = "USA" => c.totalCost = 40 * 1400
                    /\ RowOf(c).countryOfOrigin = "China" => c.totalCost = 40 * 2300

C2_Witness ==
    /\ response.status = 200
    /\ request.usage = "medium"
    /\ request.timeline = "3-5-years"
    /\ \E c, d \in Entries :
        /\ RowOf(c).priceRange = <<"$", "1", "0", "0", "0", "+">>
        /\ RowOf(d).priceRange = <<"$", "1", "0", "0", "0", "+">>
        /\ RowOf(c).countryOfOrigin = "USA" /\ c.totalCost = 40 * 1400
        /\ RowOf(d).countryOfOrigin = "China" /\ d.totalCost = 40 * 2300

\* C3: the calculations list of a successful response is in ascending order
\* of totalCost: no entry costs more than the entry after it.
C3_SortedAscending ==
    response.status = 200 =>
        \A i \in 1..(Len(response.calculations) - 1) :
            response.calculations[i].totalCost
                <= response.calculations[i + 1].totalCost

C3_Witness ==
    /\ response.status = 200
    /\ Len(response.calculations) = 2
    /\ response.calculations[1].id > response.calculations[2].id
    /\ response.calculations[1].totalCost < response.calculations[2].totalCost

\* C4: for a valid request over a non-empty catalog, savings is the totalCost
\* of the last entry of the sorted list minus that of the first, it is not
\* negative, and bestValue is the first entry.
C4_SavingsAndBestValue ==
    (Answered /\ ValidRequest /\ catalog # <<>>) =>
        /\ {"bestValue", "savings"} \subseteq response.keys
        /\ response.calculations # <<>>
        /\ response.savings =
              response.calculations[Len(response.calculations)].totalCost
                - response.calculations[1].totalCost
        /\ response.savings >= 0
        /\ response.bestValue = response.calculations[1]

C4_Witness ==
    /\ response.status = 200
    /\ Len(response.calculations) >= 2
    /\ response.savings > 0
    /\ response.bestValue.id # 1

\* C5: with an empty catalog a valid request succeeds with an empty
\* calculations list and neither a cheapest entry nor savings.
C5_EmptyCatalogSucceeds ==
    (Answered /\ ValidRequest /\ catalog = <<>>) =>
        /\ response.status = 200
        /\ "calculations" \in response.keys
        /\ response.calculations = <<>>
        /\ "bestValue" \notin response.keys
        /\ "savings" \notin response.keys

\* C6: a request with usage, material or timeline outside its enumeration is
\* rejected before the catalog is read, with a validation error that names
\* every offending field, and the response carries no calculations, no
\* bestValue and no savings.
C6_InvalidRequestRejected ==
    (Answered /\ ~ValidRequest) =>
        /\ response.status = 400
        /\ ~fetched
        /\ "errors" \in response.keys
        /\ \A k \in {"usage", "material", "timeline"} :
              (\E i \in 1..Len(response.errors) : response.errors[i] = k)
                 <=> request[k] \notin
                        (CASE k = "usage" -> {"light", "medium", "heavy"}
                           [] k = "material" -> {"mild-steel", "chromoly",
                                                  "aluminum", "stainless-steel"}
                           [] k = "timeline" -> {"1-2-years", "3-5-years",
                                                  "5-plus-years"})
        /\ response.keys \cap {"calculations", "bestValue", "savings"} = {}
        /\ response.calculations = <<>>

C6_Witness ==
    /\ response.status = 400
    /\ request.usage = "extreme"
    /\ request.material = "chromoly"
    /\ request.timeline = "3-5-years"
    /\ response.errors = <<"usage">>
    /\ Len(catalog) >= 2

\* C7: at usage heavy and timeline 5-plus-years, of two rows with the same
\* price-range text, one of origin "USA" and one of any other origin, the
\* "USA" row has the strictly lower totalCost.
C7_DomesticCheaperAtHeavyLongTerm ==
    ( /\ response.status = 200
      /\ request.usage = "heavy"
      /\ request.timeline = "5-plus-years" ) =>
        \A c, d \in Entries :
            ( /\ RowOf(c).priceRange = RowOf(d).priceRange
              /\ RowOf(c).countryOfOrigin = "USA"
              /\ RowOf(d).countryOfOrigin # "USA" ) =>
                c.totalCost < d.totalCost

C7_Witness ==
    /\ response.status = 200
    /\ request.usage = "heavy"
    /\ request.timeline = "5-plus-years"
    /\ \E c, d \in Entries :
        /\ RowOf(c).priceRange = RowOf(d).priceRange
        /\ RowOf(c).countryOfOrigin = "USA"
        /\ RowOf(d).countryOfOrigin # "USA"
        /\ c.id > d.id

\* The number that the digits of a text spell, read left to right with every
\* other character skipped; 0 when the text has no digit.
RECURSIVE C8_DigitsSpell(_)
C8_DigitsSpell(text) ==
    IF text = <<>> THEN 0
    ELSE LET last == text[Len(text)]
             front == C8_DigitsSpell(SubSeq(text, 1, Len(text) - 1))
         IN  IF last \in {"0", "1", "2", "3", "4", "5", "6", "7", "8", "9"}
             THEN 10 * front + (CHOOSE v \in 0..9 : ToString(v) = last)
             ELSE front

\* C8: the initial cost of every entry is the integer spelled by the digits of
\* the row's price-range text, or 1000 when the text has no digit or spells
\* zero; so it is strictly positive.
C8_BaselineFromPriceText ==
    response.status = 200 =>
        \A c \in Entries :
            /\ c.initialCost =
                  40 * (IF C8_DigitsSpell(RowOf(c).priceRange) = 0 THEN 1000
                        ELSE C8_DigitsSpell(RowOf(c).priceRange))
            /\ c.initialCost > 0

C8_Witness ==
    /\ response.status = 200
    /\ \/ /\ catalog[1].priceRange = <<"0", "$", "0">>
          /\ response.calculations[1].initialCost = 40 * 1000
       \/ /\ catalog[1].priceRange = <<"1", "$", "0">>
          /\ response.calculations[1].initialCost = 40 * 10

\* C9: the material does not enter the computation: the request that differs
\* from the answered one only in its material, whichever of the four it names,
\* is accepted and gets the same calculations, bestValue and savings.
C9_MaterialIsIgnored ==
    (Answered /\ ValidRequest) =>
        /\ response.status # 400
        /\ fetched
        /\ \A m \in {"mild-steel", "chromoly", "aluminum", "stainless-steel"} :
              LET other ==
                    CostCalculatorResponse([request EXCEPT !.material = m], catalog)
              IN  /\ other.status = response.status
                  /\ other.calculations = response.calculations
                  /\ other.bestValue = response.bestValue
                  /\ other.savings = response.savings

C9_Witness ==
    /\ response.status = 200
    /\ request.material = "stainless-steel"
    /\ Len(response.calculations) >= 2
    /\ response.savings > 0

(***************************************************************************)
(* Properties of the score shown.                                          *)
(***************************************************************************)
\* C10: the score shown for any product has a totalScore that is an integer
\* from 0 to 100 and equals the sum of the points of its breakdown entries,
\* on the primary path and on the fallback path.
C10_TotalScoreInRangeAndSum ==
    scoredProduct.path # "none" =>
        /\ ~scoredProduct.totalScore.isNaN
        /\ scoredProduct.totalScore.den = 1
        /\ scoredProduct.totalScore.num \in 0..100
        /\ scoredProduct.totalScore = SumOfPoints(scoredProduct.scoreBreakdown)

\* The fallback path alone, for a rating that parses to a number from 0 to 10:
\* there the score is in range and is the sum of the points.
FallbackInRangeForRatingsUpToTen ==
    ( /\ scoredProduct.path = "fallback"
      /\ ~parseFloat(scoredProduct.rating).isNaN
      /\ parseFloat(scoredProduct.rating).num >= 0
      /\ parseFloat(scoredProduct.rating).num
            <= 10 * parseFloat(scoredProduct.rating).den ) =>
        /\ scoredProduct.totalScore.num \in 0..100
        /\ scoredProduct.totalScore = SumOfPoints(scoredProduct.scoreBreakdown)

\* C11: when the primary path fails, the result has exactly one breakdown
\* entry, "Overall Rating" with maxPoints 100, whose points are the
\* totalScore, and the totalScore is round(rating * 10) for the rating text
\* parsed as a number: the integer within a half of ten times the rating (a
\* half going up), NaN when the text does not start with a number.
C11_FallbackIsRoundedRating ==
    (scoredProduct.path # "none" /\ ~product.newFields) =>
        LET rating == parseFloat(product.rating)
            total == scoredProduct.totalScore
            breakdown == scoredProduct.scoreBreakdown
        IN  /\ scoredProduct.path = "fallback"
            /\ Len(breakdown) = 1
            /\ breakdown[1].criteria = "Overall Rating"
            /\ breakdown[1].maxPoints = 100
            /\ breakdown[1].points = total
            /\ total.isNaN <=> rating.isNaN
            /\ ~total.isNaN =>
                /\ total.den = 1
                /\ 2 * total.num * rating.den - rating.den <= 20 * rating.num
                /\ 20 * rating.num < 2 * total.num * rating.den + rating.den

C11_Witness ==
    /\ scoredProduct.path = "fallback"
    /\ product.rating = <<".", "1", "9">>
    /\ scoredProduct.totalScore = [isNaN |-> FALSE, num |-> 2, den |-> 1]
    /\ Len(scoredProduct.scoreBreakdown) = 1

\* C12: scoring never fails: whatever the primary path does, the render ends
\* with a score whose totalScore is a number and whose breakdown is not empty.
C12_AlwaysAValidScore ==
    scoredProduct.path # "none" =>
        /\ ~scoredProduct.totalScore.isNaN
        /\ scoredProduct.scoreBreakdown # <<>>

\* The part of it that holds: a failure of the primary path is caught and the
\* fallback gives one breakdown entry.
PrimaryFailureIsCaught ==
    scoredProduct.path # "none" =>
        /\ scoredProduct.scoreBreakdown # <<>>
        /\ scoredProduct.path = (IF product.newFields THEN "primary" ELSE "fallback")

\* C13: in every breakdown entry the points do not exceed the entry's
\* maxPoints.
C13_PointsWithinMaxPoints ==
    \A i \in 1..Len(scoredProduct.scoreBreakdown) :
        LET entry == scoredProduct.scoreBreakdown[i]
        IN  entry.points.isNaN
                \/ entry.points.num <= entry.maxPoints * entry.points.den

\* Cost-calculator requests of several clients, interleaved with each other
\* and with an admin's updates of the catalog.  The handler has one await,
\* storage.getTubeBenders(): a request is parsed, then reads the catalog, then
\* computes and answers from what it read.
InitFlight ==
    /\ catalog \in StoreCatalogs
    /\ CostIdle
    /\ ScoreIdle
    /\ StoreIdle
    /\ FlightIdle
    /\ ServerIdle

\* costCalculationRequestSchema.parse(req.body); a ZodError is answered 400.
CostParse(c) ==
    \E body \in FlightBodies :
        /\ flights[c].stage \in {"idle", "done"}
        /\ flights' =
            [flights EXCEPT ![c] =
                IF ZodIssues(body) = <<>>
                THEN [NoFlight EXCEPT !.stage = "reading", !.body = body]
                ELSE [NoFlight EXCEPT !.stage = "done", !.body = body,
                        !.response = CostCalculatorResponse(body, <<>>)]]
        /\ UNCHANGED <<catalog, costVars, scoreVars, storeVars, now, loginVars, setupVars, contactVars, routeVars>>

\* const tubeBenders = await storage.getTubeBenders()
CostRead(c) ==
    /\ flights[c].stage = "reading"
    /\ flights' = [flights EXCEPT ![c].stage = "computing",
                                  ![c].tubeBenders = catalog]
    /\ UNCHANGED <<catalog, costVars, scoreVars, storeVars, now, loginVars, setupVars, contactVars, routeVars>>

\* Mutant: the handler computes from the catalog as it is when it answers.
CostRespondFromStorage(c) ==
    /\ flights[c].stage = "computing"
    /\ flights' =
        [flights EXCEPT ![c].stage = "done",
            ![c].response = CostCalculatorResponse(flights[c].body, catalog)]
    /\ UNCHANGED <<catalog, costVars, scoreVars, storeVars, now, loginVars, setupVars, contactVars, routeVars>>

\* The rest of the handler: map, sort, res.json.
CostRespond(c) ==
    /\ flights[c].stage = "computing"
    /\ flights' =
        [flights EXCEPT ![c].stage = "done",
            ![c].response =
                CostCalculatorResponse(flights[c].body, flights[c].tubeBenders)]
    /\ UNCHANGED <<catalog, costVars, scoreVars, storeVars, now, loginVars, setupVars, contactVars, routeVars>>

\* An admin's PATCH /api/tube-benders/1 between the steps of the requests.
CatalogUpdate ==
    \E body \in CostPatchBodies :
        /\ catalog' =
            PatchTubeBender(catalog,
                [credential |-> "admin", id |-> <<"1">>, body |-> body]).rows
        /\ catalog' # catalog
        /\ UNCHANGED <<costVars, scoreVars, storeVars, flightVars, now, loginVars, setupVars, contactVars, routeVars>>

NextFlight ==
    \/ \E c \in Clients : CostParse(c)
    \/ \E c \in Clients : CostRead(c)
    \/ \E c \in Clients : CostRespond(c)
    \/ CatalogUpdate

SpecFlight == InitFlight /\ [][NextFlight]_vars

\* POST /api/auth/login for an account in use and a disabled one.  The
\* handler awaits storage.getAdminByUsername, AuthService.verifyPassword and
\* the storage update; the requests of one caller interleave at the awaits.
InitLogin ==
    /\ catalog = <<>>
    /\ CostIdle
    /\ ScoreIdle
    /\ StoreIdle
    /\ FlightIdle
    /\ now = 0
    /\ admins = LoginAdmins
    /\ LoginIdle({"10.0.0.1"}, LoginSlots)
    /\ SetupIdle
    /\ ContactIdle
    /\ RouteIdle

\* A request is stopped by generalLimiter, which counts all the /api requests
\* of its IP: those to other routes are not kept here, so any login request
\* may meet a used up quota.
GeneralLimited ==
    /\ loginResponse' = [NoLoginResponse EXCEPT !.status = 429]
    /\ UNCHANGED <<catalog, costVars, scoreVars, storeVars, flightVars, now,
                   admins, loginLimiter, logins, failed, reached, setupVars, contactVars, routeVars>>

LoginEarlyReturnWithoutActiveCheck(user, time) ==
    IF user = NoUser
    THEN [status |-> 401, error |-> "Invalid username or password."]
    ELSE IF isAccountLocked(user, time)
    THEN [status |-> 423,
          error |-> "Account is temporarily locked due to multiple failed login attempts. Please try again later."]
    ELSE [status |-> 0, error |-> ""]

\* The handler's answers before the password is looked at: no such user, a
\* locked account, a disabled account; status 0 when it goes on to verify.
LoginEarlyReturn(user, time) ==
    IF user = NoUser
    THEN [status |-> 401, error |-> "Invalid username or password."]
    ELSE IF isAccountLocked(user, time)
    THEN [status |-> 423,
          error |-> "Account is temporarily locked due to multiple failed login attempts. Please try again later."]
    ELSE IF ~user.isActive
    THEN [status |-> 401, error |-> "Account is disabled. Please contact administrator."]
    ELSE [status |-> 0, error |-> ""]

\* The error of the 401 that answers a failed verification.
FailedLoginError(shouldLock) ==
    IF shouldLock
    THEN "Account has been temporarily locked due to multiple failed login attempts."
    ELSE "Invalid username or password."

\* A request passes generalLimiter: loginLimiter, validateLoginRequest,
\* then the handler up to its early returns.
LoginRequest(s) ==
    \E ip \in DOMAIN loginLimiter, body \in LoginBodies :
        LET window == Hit(loginLimiter[ip], now)
            entered == ~Limited(window) /\ validateLoginRequest(body)
            user == getAdminByUsername(admins, body.username)
            early == LoginEarlyReturn(user, now)
            status ==
                IF Limited(window) THEN 429
                ELSE IF ~validateLoginRequest(body) THEN 400
                ELSE early.status
        IN  /\ logins[s].stage = "idle"
            /\ window.hits <= MaxHits
            /\ loginLimiter' = [loginLimiter EXCEPT ![ip] = window]
            /\ reached' =
                [reached EXCEPT ![ip] =
                    (IF window.resetAt # loginLimiter[ip].resetAt THEN 0 ELSE @)
                        + (IF entered THEN 1 ELSE 0)]
            /\ logins' =
                IF status # 0 THEN logins
                ELSE [logins EXCEPT ![s] =
                        [stage |-> "verifying", password |-> body.password,
                         user |-> [NoUser EXCEPT
                                    !.id = user.id,
                                    !.username = user.username,
                                    !.passwordHash = user.passwordHash,
                                    !.loginAttempts = user.loginAttempts]]]
            /\ loginResponse' =
                IF status = 0 THEN loginResponse
                ELSE [username |-> IF entered THEN body.username ELSE "",
                      status |-> status,
                      error |-> IF entered THEN early.error ELSE "",
                      token |-> FALSE]
            /\ UNCHANGED <<catalog, costVars, scoreVars, storeVars, flightVars,
                           now, admins, failed, setupVars, contactVars, routeVars>>

\* verifyPassword has resolved: the failed attempt is counted from the row as
\* the request read it, or the login is recorded and the token issued.
LoginVerified(s) ==
    LET login == logins[s]
        user == login.user
        newAttempts == user.loginAttempts + 1
        shouldLock == shouldLockAccount(newAttempts)
        lockedUntil == IF shouldLock THEN getLockoutExpiry(now) ELSE NoTime
    IN  /\ login.stage = "verifying"
        /\ IF ~verifyPassword(login.password, user.passwordHash)
           THEN /\ \E keep \in BOOLEAN :
                    admins' = updateAdminLoginAttempts(admins, user.id, newAttempts,
                                                       lockedUntil, keep)
                /\ failed' = IF failed < MaxLoginAttempts THEN failed + 1 ELSE failed
                /\ loginResponse' =
                    [username |-> user.username, status |-> 401,
                     error |-> FailedLoginError(shouldLock), token |-> FALSE]
           ELSE /\ admins' = updateAdminLastLogin(admins, user.id, now)
                /\ failed' = 0
                /\ loginResponse' =
                    [username |-> user.username, status |-> 200,
                     error |-> "", token |-> TRUE]
        /\ logins' = [logins EXCEPT ![s] = NoLogin]
        /\ UNCHANGED <<catalog, costVars, scoreVars, storeVars, flightVars,
                       now, loginLimiter, reached, setupVars, contactVars, routeVars>>

\* Time passes; the limiter's store drops the windows that have ended.
Tick ==
    /\ now < MaxTicks * TickMs
    /\ now' = now + TickMs
    /\ loginLimiter' =
        [ip \in DOMAIN loginLimiter |->
            IF now' >= loginLimiter[ip].resetAt THEN NoWindow ELSE loginLimiter[ip]]
    /\ reached' =
        [ip \in DOMAIN reached |->
            IF now' >= loginLimiter[ip].resetAt THEN 0 ELSE reached[ip]]
    /\ UNCHANGED <<catalog, costVars, scoreVars, storeVars, flightVars,
                   admins, logins, loginResponse, failed, setupVars, contactVars, routeVars>>

NextLogin ==
    \/ GeneralLimited
    \/ \E s \in DOMAIN logins : LoginRequest(s)
    \/ \E s \in DOMAIN logins : LoginVerified(s)
    \/ Tick

SpecLogin == InitLogin /\ [][NextLogin]_vars

\* The same route called from two addresses, one request at a time.
InitLimiter ==
    /\ catalog = <<>>
    /\ CostIdle
    /\ ScoreIdle
    /\ StoreIdle
    /\ FlightIdle
    /\ now = 0
    /\ admins = LoginAdmins
    /\ LoginIdle(IPs, {1})
    /\ SetupIdle
    /\ ContactIdle
    /\ RouteIdle

SpecLimiter == InitLimiter /\ [][NextLogin]_vars

\* POST /api/auth/setup, on a server without an admin or with the two admins
\* of the login model.  The handler awaits storage.getAllAdmins, then
\* AuthService.hashPassword and storage.createAdmin; the requests of several
\* callers interleave at the awaits.
InitSetup ==
    /\ catalog = <<>>
    /\ CostIdle
    /\ ScoreIdle
    /\ StoreIdle
    /\ FlightIdle
    /\ now = 0
    /\ admins \in {<<>>, LoginAdmins}
    /\ LoginIdle(IPs, LoginSlots)
    /\ SetupIdle
    /\ ContactIdle
    /\ RouteIdle

\* A request arrives; generalLimiter may stop it (see GeneralLimited), else
\* the handler calls storage.getAllAdmins().
SetupArrive(s) ==
    \E body \in SetupBodies, limited \in BOOLEAN :
        /\ setups[s].stage \in {"idle", "done"}
        /\ setups' =
            [setups EXCEPT ![s] =
                IF limited THEN [stage |-> "done", body |-> body, status |-> 429]
                ELSE [stage |-> "listing", body |-> body, status |-> 0]]
        /\ UNCHANGED <<catalog, costVars, scoreVars, storeVars, flightVars, now,
                       loginVars, contactVars, routeVars>>

\* getAllAdmins has resolved: the 409, the two 400s, or on to hashPassword.
SetupListed(s) ==
    LET body == setups[s].body
        status ==
            IF Len(admins) > 0 THEN 409
            ELSE IF SetupFieldMissing(body) THEN 400
            ELSE IF Len(body.password) < 8 THEN 400
            ELSE 0
    IN  /\ setups[s].stage = "listing"
        /\ setups' =
            [setups EXCEPT ![s] =
                IF status = 0 THEN [@ EXCEPT !.stage = "hashing"]
                ELSE [@ EXCEPT !.stage = "done", !.status = status]]
        /\ UNCHANGED <<catalog, costVars, scoreVars, storeVars, flightVars, now,
                       loginVars, contactVars, routeVars>>

\* hashPassword has resolved: storage.createAdmin, then 201; a refused insert
\* throws, and the catch answers 500.
SetupCreate(s) ==
    LET body == setups[s].body
    IN  /\ setups[s].stage = "hashing"
        /\ IF CreateAdminRefused(admins, body)
           THEN /\ admins' = admins
                /\ setups' = [setups EXCEPT ![s].stage = "done", ![s].status = 500]
           ELSE /\ admins' = createAdmin(admins, body)
                /\ setups' = [setups EXCEPT ![s].stage = "done", ![s].status = 201]
        /\ UNCHANGED <<catalog, costVars, scoreVars, storeVars, flightVars, now,
                       loginLimiter, logins, loginResponse, failed, reached,
                       contactVars, routeVars>>

NextSetup ==
    \/ \E s \in SetupSlots : SetupArrive(s)
    \/ \E s \in SetupSlots : SetupListed(s)
    \/ \E s \in SetupSlots : SetupCreate(s)

SpecSetup == InitSetup /\ [][NextSetup]_vars

\* POST /api/contact from two addresses.  The handler has no await: a
\* submission is handled in one step.
InitContact ==
    /\ catalog = <<>>
    /\ CostIdle
    /\ ScoreIdle
    /\ StoreIdle
    /\ FlightIdle
    /\ ServerIdle

\* The accepted submissions of this IP that are less than an hour old.
RecentlyAccepted(ip) ==
    {i \in 1..Len(accepted[ip]) : now - accepted[ip][i] < 3600000}

\* A submission, one that would pass the validation or one that would not,
\* is stopped by generalLimiter (see GeneralLimited).
ContactGeneralLimited ==
    \E ip \in IPs, body \in ContactBodies :
        /\ contactResponse' =
            [ip |-> ip, body |-> body, passed |-> ContactError(body) = "",
             full |-> Cardinality(RecentlyAccepted(ip)) >= 3, status |-> 429]
        /\ UNCHANGED <<catalog, costVars, scoreVars, storeVars, flightVars, now,
                       loginVars, setupVars, rateLimiter, accepted, routeVars>>

\* A submission passes generalLimiter and is handled.
ContactSubmit ==
    \E ip \in IPs, body \in ContactBodies :
        LET recent == recentSubmissions(rateLimiter[ip], now)
            status ==
                IF ContactError(body) # "" THEN 400
                ELSE IF ContactLimited(recent) THEN 429
                ELSE 200
        IN  /\ rateLimiter' =
                [rateLimiter EXCEPT ![ip] = ContactHistoryAfter(@, now, status)]
            /\ accepted' =
                IF status = 200
                THEN [accepted EXCEPT ![ip] = Append(@, now)]
                ELSE accepted
            /\ contactResponse' =
                [ip |-> ip, body |-> body, passed |-> ContactError(body) = "",
                 full |-> Cardinality(RecentlyAccepted(ip)) >= 3, status |-> status]
            /\ UNCHANGED <<catalog, costVars, scoreVars, storeVars, flightVars, now,
                           loginVars, setupVars, routeVars>>

\* Time passes.
ContactTick ==
    /\ now < MaxContactTicks * ContactTickMs
    /\ now' = now + ContactTickMs
    /\ UNCHANGED <<catalog, costVars, scoreVars, storeVars, flightVars,
                   loginVars, setupVars, contactVars, routeVars>>

NextContact == ContactGeneralLimited \/ ContactSubmit \/ ContactTick

SpecContact == InitContact /\ [][NextContact]_vars

\* GET requests to the product routes.
InitRoutes ==
    /\ catalog \in RouteCatalogs
    /\ CostIdle
    /\ ScoreIdle
    /\ StoreIdle
    /\ FlightIdle
    /\ now = 0
    /\ admins = <<>>
    /\ LoginIdle(IPs, LoginSlots)
    /\ SetupIdle
    /\ ContactIdle
    /\ routeRequest = NoRouteRequest
    /\ routeResponse = NoRouteResponse

\* One GET request, from the router to the response.
GetRequest ==
    \E path \in RoutePaths :
        /\ routeRequest' = path
        /\ routeResponse' = GetAnswer(catalog, path)
        /\ UNCHANGED <<catalog, costVars, scoreVars, storeVars, flightVars, now,
                       loginVars, setupVars, contactVars>>

NextRoutes == GetRequest

SpecRoutes == InitRoutes /\ [][NextRoutes]_vars

(***************************************************************************)
(* Properties of the product table.                                        *)
(***************************************************************************)
\* C15: in every state of the table, whatever update requests came before,
\* each product's supportQuality, buildQuality and valueScore is from 1 to 10.
C15_ScoresWithinOneToTen ==
    \A i \in 1..Len(catalog) :
        /\ catalog[i].supportQuality \in 1..10
        /\ catalog[i].buildQuality \in 1..10
        /\ catalog[i].valueScore \in 1..10

\* C16: a request changes a stored product record, by the update route or by
\* the category route, only when it carries the valid token of an admin.
C16_OnlyAdminsChangeProducts ==
    storeResponse.wrote => storeRequest.credential = "admin"

\* The part of it that holds: the update route changes a record only for an
\* admin's token.
UpdateRouteIsGuarded ==
    (storeResponse.wrote /\ storeRequest.route = "update") =>
        storeRequest.credential = "admin"

(***************************************************************************)
(* Properties of interleaved cost-calculator requests.                     *)
(***************************************************************************)
\* C14: no step of a cost-calculator request, however the requests are
\* interleaved, changes the stored catalog, and the response of a finished
\* request is determined by its body and the catalog as it was when the
\* request read it, whatever was requested or stored before or since.
C14_CostCalculationIsPure ==
    [][(flights' # flights) =>
        /\ catalog' = catalog
        /\ \A c \in Clients :
            flights'[c].stage = "done" =>
                /\ flights'[c].response =
                        CostCalculatorResponse(flights'[c].body,
                                               flights'[c].tubeBenders)
                /\ \A d \in Clients :
                        (/\ flights'[d].stage = "done"
                         /\ flights'[d].body = flights'[c].body
                         /\ flights'[d].tubeBenders = flights'[c].tubeBenders)
                            => flights'[d].response = flights'[c].response]_vars

\* Two requests have finished with the same body and different answers,
\* having read different catalogs, and the catalog has changed since.
C14_Witness ==
    /\ flights[1].stage = "done" /\ flights[2].stage = "done"
    /\ flights[1].body = flights[2].body
    /\ flights[1].response.status = 200
    /\ flights[2].response.status = 200
    /\ flights[1].response # flights[2].response
    /\ flights[1].tubeBenders # flights[2].tubeBenders
    /\ catalog # flights[1].tubeBenders /\ catalog # flights[2].tubeBenders

(***************************************************************************)
(* Properties of POST /api/auth/login.                                     *)
(***************************************************************************)
\* The account in use, as stored.
Account == getAdminByUsername(admins, "admin")

\* This step is the end of a request whose password did not verify.
FailedVerification ==
    \E s \in DOMAIN logins :
        /\ logins[s].stage = "verifying"
        /\ logins'[s].stage = "idle"
        /\ ~verifyPassword(logins[s].password, logins[s].user.passwordHash)

\* This step is a request that entered the handler and was answered at once.
AnsweredOnArrival ==
    /\ \E ip \in DOMAIN reached : reached'[ip] > reached[ip]
    /\ logins' = logins

\* This step is a request that entered the handler and went on to verify.
AdmittedToVerify ==
    \E s \in DOMAIN logins :
        logins[s].stage = "idle" /\ logins'[s].stage = "verifying"

\* C17: when a failed password attempt brings the account's failed attempts
\* (since its last successful login) to 5 or more, the account is stored as
\* locked until 30 minutes from then; and a login request for the account that
\* reaches the handler before that expiry is answered 423 without a token and
\* goes no further, whatever its password.
C17_LockoutAfterFiveFailures ==
    [][/\ (FailedVerification /\ failed' >= 5) =>
            getAdminByUsername(admins', "admin").lockedUntil = now + 30 * 60 * 1000
       /\ (Account.lockedUntil # NoTime /\ now < Account.lockedUntil) =>
            /\ (AnsweredOnArrival /\ loginResponse'.username = "admin") =>
                    loginResponse'.status = 423 /\ ~loginResponse'.token
            /\ ~AdmittedToVerify]_vars

\* C18: of the requests of one IP, at most 5 enter the login handler in one
\* window of the limiter, and a request that the limiter counts beyond 5 is
\* answered 429 with no admin row read or changed.
C18_LoginRateLimited ==
    [][\A ip \in DOMAIN loginLimiter :
        /\ reached'[ip] <= 5
        /\ (loginLimiter'[ip] # loginLimiter[ip] /\ loginLimiter'[ip].hits > 5) =>
            /\ loginResponse'.status = 429
            /\ ~loginResponse'.token
            /\ admins' = admins
            /\ logins' = logins
            /\ reached' = reached]_vars

\* One IP has had 5 requests enter the handler and its 6th answered 429,
\* while another IP's requests still enter.
C18_Witness ==
    \E ip \in DOMAIN loginLimiter, other \in DOMAIN loginLimiter :
        /\ ip # other
        /\ reached[ip] = 5
        /\ loginLimiter[ip].hits = 6
        /\ loginResponse.status = 429
        /\ reached[other] \in 1..4
        /\ Account.loginAttempts > 0

(***************************************************************************)
(* Properties of POST /api/auth/setup.                                     *)
(***************************************************************************)
\* The handler answers request s in this step.
SetupAnswered(s) ==
    setups[s].stage \in {"listing", "hashing"} /\ setups'[s].stage = "done"

\* C19: a setup request that the handler answers while at least one admin
\* exists is answered 409 and creates no admin; one it answers while none
\* exists, whose body lacks the username, the email or the password or has a
\* password of fewer than 8 characters, is answered 400 and creates no admin.
C19_SetupOnlyWithoutAdmins ==
    [][\A s \in SetupSlots :
        SetupAnswered(s) =>
            /\ Len(admins) > 0 =>
                setups'[s].status = 409 /\ admins' = admins
            /\ (/\ Len(admins) = 0
                /\ \/ SetupFieldMissing(setups[s].body)
                   \/ Len(setups[s].body.password) < 8) =>
                setups'[s].status = 400 /\ admins' = admins]_vars

\* What holds of the guards under every interleaving: a request that finds
\* an admin in the listing is answered 409, one with an incomplete body that
\* finds none is answered 400, and neither creates an admin.
SetupGuardsAtListing ==
    [][\A s \in SetupSlots :
        (setups[s].stage = "listing" /\ setups'[s].stage # "listing") =>
            /\ admins' = admins
            /\ Len(admins) > 0 => setups'[s] = [setups[s] EXCEPT !.stage = "done", !.status = 409]
            /\ (/\ Len(admins) = 0
                /\ \/ SetupFieldMissing(setups[s].body)
                   \/ Len(setups[s].body.password) < 8) =>
                setups'[s] = [setups[s] EXCEPT !.stage = "done", !.status = 400]]_vars

(***************************************************************************)
(* Properties of POST /api/contact.                                        *)
(***************************************************************************)
\* Of each IP, at most 3 accepted submissions lie in an hour that starts at
\* one of them.
AtMostThreePerHour ==
    \A ip \in IPs :
        \A i \in 1..Len(accepted[ip]) :
            Cardinality({j \in 1..Len(accepted[ip]) :
                            /\ accepted[ip][i] <= accepted[ip][j]
                            /\ accepted[ip][j] < accepted[ip][i] + 3600000}) <= 3

\* C20 as stated: at most 3 accepted submissions of an IP in any hour, and
\* every submission that arrives when 3 accepted submissions of its IP are
\* less than an hour old is answered 429.
C20_ContactRateLimited ==
    /\ AtMostThreePerHour
    /\ contactResponse.full => contactResponse.status = 429

\* C20, amended: at most 3 accepted submissions of an IP in any hour, and a
\* submission that arrives when 3 accepted submissions of its IP are less
\* than an hour old is answered 429 if it passes the spam validation, and is
\* never accepted (one that fails the validation is answered 400 or 429).
C20_ContactRateLimitedAfterValidation ==
    /\ AtMostThreePerHour
    /\ contactResponse.full =>
        /\ contactResponse.status \in {400, 429}
        /\ contactResponse.passed => contactResponse.status = 429

\* An IP with 3 accepted submissions less than an hour old has a submission
\* that passes the validation answered 429, another hour's submissions of it
\* having been accepted before.
C20_Witness ==
    /\ contactResponse.full
    /\ contactResponse.passed
    /\ contactResponse.status = 429
    /\ Len(accepted[contactResponse.ip]) > 3

(***************************************************************************)
(* Further properties of the cost calculator.                              *)
(***************************************************************************)
\* C21: the sort is stable: of two entries of the calculations list with the
\* same totalCost, the one whose product comes first in the catalog as
\* storage returned it comes first in the list.
C21_SortIsStable ==
    response.status = 200 =>
        \A i \in 1..Len(response.calculations) :
            \A j \in (i + 1)..Len(response.calculations) :
                response.calculations[i].totalCost
                        = response.calculations[j].totalCost
                    => response.calculations[i].id < response.calculations[j].id

\* Two products with different price texts cost the same and keep their
\* catalog order.
C21_Witness ==
    /\ response.status = 200
    /\ Len(response.calculations) = 2
    /\ response.calculations[1].totalCost = response.calculations[2].totalCost
    /\ catalog[1].priceRange # catalog[2].priceRange
    /\ response.calculations[1].id = 1

(***************************************************************************)
(* Further properties of the login route.                                  *)
(***************************************************************************)

\* This step is the end of a request whose password verified.
SuccessfulVerification ==
    \E s \in DOMAIN logins :
        /\ logins[s].stage = "verifying"
        /\ logins'[s].stage = "idle"
        /\ verifyPassword(logins[s].password, logins[s].user.passwordHash)

\* C22: a successful login leaves the account stored with loginAttempts 0 and
\* no lockedUntil, and the failed attempts made before it do not count
\* afterwards: below the lock threshold the stored loginAttempts is never
\* more than the number of failed attempts since the last successful login.
C22_SuccessResetsCounter ==
    [][/\ SuccessfulVerification =>
            /\ getAdminByUsername(admins', "admin").loginAttempts = 0
            /\ getAdminByUsername(admins', "admin").lockedUntil = NoTime
       /\ failed' < MaxLoginAttempts =>
            getAdminByUsername(admins', "admin").loginAttempts <= failed']_vars

\* C26: while the account is stored as locked (lockedUntil later than now), no
\* step of a login request changes its stored row: loginAttempts, lockedUntil
\* and lastLogin stay as they are, whatever the password.
C26_LockedAccountUnchanged ==
    [][(Account.lockedUntil # NoTime /\ now < Account.lockedUntil) =>
            /\ getAdminByUsername(admins', "admin").loginAttempts = Account.loginAttempts
            /\ getAdminByUsername(admins', "admin").lockedUntil = Account.lockedUntil
            /\ getAdminByUsername(admins', "admin").lastLogin = Account.lastLogin]_vars

\* C28: every failed password verification raises the stored loginAttempts of
\* the account by exactly one.
C28_NoLostUpdate ==
    [][FailedVerification =>
            getAdminByUsername(admins', "admin").loginAttempts
                = Account.loginAttempts + 1]_vars

\* C30: a response of the login handler without a token for the username of
\* an existing account, unlocked, locked or disabled, has the status and the
\* error of the response for a username that no account has.  (Without a
\* token, the handler answers an unlocked active account only after a wrong
\* password, and a locked or a disabled one in the same way whatever the
\* password.)
C30_NoUsernameEnumeration ==
    (/\ getAdminByUsername(admins, loginResponse.username) # NoUser
     /\ loginResponse.status # 0
     /\ ~loginResponse.token) =>
        /\ loginResponse.status = LoginEarlyReturn(NoUser, now).status
        /\ loginResponse.error = LoginEarlyReturn(NoUser, now).error

(***************************************************************************)
(* Further properties of POST /api/auth/setup.                             *)
(***************************************************************************)

\* C27: at most one admin is ever created through setup: a step of a setup
\* request adds a row to the admin table only when the table is empty, and
\* it adds one row.
C27_AtMostOneAdminBySetup ==
    [][Len(admins') > Len(admins) =>
            /\ Len(admins) = 0
            /\ Len(admins') = 1]_vars

(***************************************************************************)
(* Properties of the product routes.                                       *)
(***************************************************************************)

\* C23: GET /api/tube-benders/recommended is answered by the handler of the
\* recommended products with the recommended list, and never with 400
\* "Invalid tube bender ID".
C23_RecommendedIsAnswered ==
    routeRequest = <<Api, TubeBendersSegment, RecommendedSegment>> =>
        /\ routeResponse.handler = "getRecommendedTubeBenders"
        /\ routeResponse.status = 200
        /\ routeResponse.rows = getRecommendedTubeBenders(catalog)
        /\ ~(routeResponse.status = 400
                /\ routeResponse.message = "Invalid tube bender ID")

\* C24: a token is issued only at the end of a verification whose password
\* verifies against the account's hash; a request goes on to verify only if
\* the account it read exists, is not locked and is active at that time; a
\* token is never issued for a disabled account, and no login step changes
\* the stored row of the disabled account.
C24_TokenOnlyForVerifiedAccount ==
    [][/\ \A s \in DOMAIN logins :
            (logins[s].stage = "verifying" /\ logins'[s].stage = "idle"
                /\ loginResponse'.token) =>
                LET user == getAdminByUsername(admins, logins[s].user.username)
                IN  /\ loginResponse'.status = 200
                    /\ loginResponse'.username = user.username
                    /\ user # NoUser
                    /\ user.isActive
                    /\ verifyPassword(logins[s].password, user.passwordHash)
       /\ (loginResponse'.token /\ loginResponse' # loginResponse) =>
            \E s \in DOMAIN logins :
                logins[s].stage = "verifying" /\ logins'[s].stage = "idle"
       /\ \A s \in DOMAIN logins :
            (logins[s].stage = "idle" /\ logins'[s].stage = "verifying") =>
                LET user == getAdminByUsername(admins, logins'[s].user.username)
                IN  /\ user # NoUser
                    /\ ~isAccountLocked(user, now)
                    /\ user.isActive
       /\ getAdminByUsername(admins', "old") = getAdminByUsername(admins, "old")]_vars

\* A token was issued to the active account in a window in which another
\* request had also entered the handler, after time had passed.
C24_Witness ==
    /\ loginResponse.token
    /\ loginResponse.username = "admin"
    /\ Account.lastLogin = now
    /\ now > 0
    /\ \E ip \in DOMAIN reached : reached[ip] >= 2
    /\ ~getAdminByUsername(admins, "old").isActive

(***************************************************************************)
(* Further properties of POST /api/contact.                                *)
(***************************************************************************)

\* C25: every accepted contact submission has an empty honeypot, a timeSpent
\* that is a number of at least 10000, a name, an email, a subject and a
\* message of at least 20 characters, and no prohibited pattern; a submission
\* without a timeSpent is not accepted.
C25_AcceptedPassesEveryCheck ==
    contactResponse.status = 200 =>
        /\ ~contactResponse.body.honeypot
        /\ ~contactResponse.body.timeSpent.isNaN
        /\ contactResponse.body.timeSpent.num >= 10000 * contactResponse.body.timeSpent.den
        /\ contactResponse.body.name
        /\ contactResponse.body.email
        /\ contactResponse.body.subject
        /\ contactResponse.body.messageLength >= 20
        /\ ~contactResponse.body.prohibited

\* C29: a contact submission that is not accepted leaves the rate limiter's
\* history of every client as it was; a history changes only by an accepted
\* submission of its client, and every time in a history is the time of an
\* accepted submission of that client.
C29_RejectedNotRecorded ==
    [][/\ contactResponse'.status # 200 => rateLimiter' = rateLimiter
       /\ \A ip \in IPs :
            /\ rateLimiter'[ip] # rateLimiter[ip] =>
                    contactResponse'.status = 200 /\ contactResponse'.ip = ip
            /\ \A i \in 1..Len(rateLimiter'[ip]) :
                    \E j \in 1..Len(accepted'[ip]) :
                        accepted'[ip][j] = rateLimiter'[ip][i]]_vars

\* A submission of a client with 3 recent accepted submissions has been
\* answered 429, the other client having a history of its own, and the
\* histories hold the accepted submissions only.
C29_Witness ==
    /\ contactResponse.status = 429
    /\ contactResponse.passed
    /\ Len(rateLimiter[contactResponse.ip]) = 3
    /\ \E ip \in IPs : ip # contactResponse.ip /\ Len(rateLimiter[ip]) = 1
    /\ now > 0

====
